---- MODULE Spec2Model ----
(***************************************************************************)
(* A model of three pieces of the view layer of the engine:                *)
(*   - Document.registerPostFixer / Document._callPostFixers               *)
(*     (packages/ckeditor5-engine/src/view/document.js),                   *)
(*   - Document._addEventListener / Document._removeEventListener          *)
(*     (same file),                                                        *)
(*   - EmptyElement._insertChild and its constructor                       *)
(*     (packages/ckeditor5-engine/src/view/emptyelement.ts).               *)
(***************************************************************************)
EXTENDS Integers, Sequences, FiniteSets, TLC

(***************************************************************************)
(* Bounds of the model.                                                    *)
(***************************************************************************)
\* number of distinct post-fixer callbacks that can be registered
NumFixers == 4
\* the render tree is abstracted to a number of outstanding defects 0..MaxTree
MaxTree == 2
\* the pass counter of a run saturates here
MaxPasses == 3

Fixers == 1 .. NumFixers
Trees == 0 .. MaxTree

Range(s) == { s[k] : k \in 1 .. Len(s) }

Min(a, b) == IF a < b THEN a ELSE b

(***************************************************************************)
(* Post-fixer callbacks.  A post-fixer takes the writer (here: the tree)   *)
(* and returns true when it made a change (document.js:128-131, 151-158).  *)
(* The callbacks are code of the callers; four behaviours are modelled,    *)
(* assigned to the callbacks round-robin:                                  *)
(*   noop    never changes anything, returns false                         *)
(*   repair  removes one defect when there is one and returns true,        *)
(*           returns false on a clean tree                                 *)
(*   always  reports a change on every invocation (a misbehaving fixer)    *)
(*   damage  adds a defect while the tree has room and returns true        *)
(***************************************************************************)
KindSeq == << "noop", "repair", "always", "damage" >>

Kind(f) == KindSeq[((f - 1) % Len(KindSeq)) + 1]

\* callback( writer ): the tree it leaves and the value it returns
Callback(f, t) ==
    CASE Kind(f) = "noop"   -> [tree |-> t, changed |-> FALSE]
      [] Kind(f) = "repair" -> IF t > 0 THEN [tree |-> t - 1, changed |-> TRUE]
                                        ELSE [tree |-> t, changed |-> FALSE]
      [] Kind(f) = "always" -> [tree |-> t, changed |-> TRUE]
      [] Kind(f) = "damage" -> IF t < MaxTree THEN [tree |-> t + 1, changed |-> TRUE]
                                              ELSE [tree |-> t, changed |-> FALSE]

VARIABLES
    postFixers,   \* this._postFixers: a Set, kept as its insertion-ordered list
    tree,         \* the view tree the writer works on
    pc,           \* position inside _callPostFixers: "idle", "for", "while"
    wasFixed,     \* the local wasFixed of _callPostFixers
    it,           \* the Set iterator of the for-of loop: entries consumed so far
    op,           \* the last operation entered on the document
    passLog,      \* history: <<callback, result>> of each invocation of the current pass
    passes,       \* history: passes started by the current run (saturates at MaxPasses)
    invoked,      \* history: the callbacks invoked so far
    treeAtCall,   \* history: the tree when the current run was entered
    setAtCall,    \* history: this._postFixers when the current run was entered
    afterReturn   \* history: the current run was entered right after a run returned

pfVars == << postFixers, tree, pc, wasFixed, it, op, passLog, passes, invoked,
             treeAtCall, setAtCall, afterReturn >>

(***************************************************************************)
(* State of the document's event listeners.                                *)
(***************************************************************************)
\* number of entries of the observers map handed to the constructor
NumObservers == 2

Events == { "click", "keydown" }
Callbacks == { "cbA", "cbB" }
\* options.context: not given, or a context name
Contexts == { "undefined", "$text" }
ObserverNames == 1 .. NumObservers

\* an observer: whether it is a BubblingObserver, and its firedEventType property
ObserverKinds == [ bubbling : BOOLEAN, firedEventType : Events \cup { "undefined" } ]

VARIABLES
    observers,     \* this._observers: name -> observer
    docListeners,  \* <<event, callback>> pairs attached to the document itself
    obsListeners,  \* per observer, the <<event, callback>> pairs attached to it
    lastCall       \* history: the last listener call and its arguments

elVars == << observers, docListeners, obsListeners, lastCall >>

(***************************************************************************)
(* State of an EmptyElement.                                               *)
(***************************************************************************)
\* longest iterable handed to _insertChild
MaxItems == 3
\* largest index handed to _insertChild
MaxIndex == 2

\* what an Item can be: two kinds of Node, and a TextProxy (an Item, not a Node)
ItemKinds == { "element", "text", "textProxy" }

SeqsUpTo(S, n) == UNION { [ 1 .. k -> S ] : k \in 0 .. n }

\* the values of the items / children argument
ItemsValues ==
    { [ kind |-> "undefined", elems |-> << >> ] }
    \cup { [ kind |-> k, elems |-> << >> ] : k \in ItemKinds }
    \cup { [ kind |-> "iterable", elems |-> s ] : s \in SeqsUpTo(ItemKinds, MaxItems) }

VARIABLES
    constructed,  \* an EmptyElement instance exists
    children,     \* its child nodes (Element#_children)
    thrown,       \* the error the last call threw, or "none"
    returned,     \* the value the last call returned, or "none"
    eeCall        \* history: the last call and its arguments

eeVars == << constructed, children, thrown, returned, eeCall >>

vars == << pfVars, elVars, eeVars >>

(***************************************************************************)
(* Post-fixers of the document.                                            *)
(***************************************************************************)
\* Set.prototype.add: appends a new entry, ignores one that is present
SetAdd(set, f) == IF f \in Range(set) THEN set ELSE Append(set, f)

PostFixersInit ==
    /\ postFixers = << >>
    /\ tree \in Trees
    /\ pc = "idle"
    /\ wasFixed = FALSE
    /\ it = 0
    /\ op = "constructor"
    /\ passLog = << >>
    /\ passes = 0
    /\ invoked = {}
    /\ treeAtCall = tree
    /\ setAtCall = << >>
    /\ afterReturn = FALSE

\* a registerPostFixer that also runs the callback it is given
RegisterAndInvoke(f) ==
    /\ pc = "idle"
    /\ postFixers' = SetAdd(postFixers, f)
    /\ op' = "registerPostFixer"
    /\ tree' = Callback(f, tree).tree
    /\ invoked' = invoked \cup { f }
    /\ UNCHANGED << pc, wasFixed, it, passLog, passes,
                    treeAtCall, setAtCall, afterReturn >>
    /\ UNCHANGED << elVars, eeVars >>

\* registerPostFixer( postFixer )
RegisterPostFixer(f) ==
    /\ pc = "idle"
    /\ postFixers' = SetAdd(postFixers, f)
    /\ op' = "registerPostFixer"
    /\ UNCHANGED << tree, pc, wasFixed, it, passLog, passes, invoked,
                    treeAtCall, setAtCall, afterReturn >>
    /\ UNCHANGED << elVars, eeVars >>

\* a conversion pass of a change block rewrites the view tree
Change(t) ==
    /\ pc = "idle"
    /\ tree' = t
    /\ op' = "change"
    /\ UNCHANGED << postFixers, pc, wasFixed, it, passLog, passes, invoked,
                    treeAtCall, setAtCall, afterReturn >>
    /\ UNCHANGED << elVars, eeVars >>

\* _callPostFixers( writer ): let wasFixed = false; do { for ( ... of this._postFixers )
CallPostFixers ==
    /\ pc = "idle"
    /\ wasFixed' = FALSE
    /\ pc' = "for"
    /\ it' = 0
    /\ op' = "_callPostFixers"
    /\ passLog' = << >>
    /\ passes' = 1
    /\ treeAtCall' = tree
    /\ setAtCall' = postFixers
    /\ afterReturn' = (op = "_callPostFixers")
    /\ UNCHANGED << postFixers, tree, invoked >>
    /\ UNCHANGED << elVars, eeVars >>

\* the for-of loop without its break: the pass goes on after a change
InvokeNoBreak(r) ==
    /\ pc = "for"
    /\ it < Len(postFixers)
    /\ LET callback == postFixers[it + 1]
           res == Callback(callback, tree)
       IN  /\ tree' = res.tree
           /\ wasFixed' = res.changed
           /\ postFixers' = IF r = 0 THEN postFixers ELSE SetAdd(postFixers, r)
           /\ passLog' = Append(passLog, << callback, res.changed >>)
           /\ invoked' = invoked \cup { callback }
           /\ pc' = "for"
           /\ it' = it + 1
    /\ UNCHANGED << op, passes, treeAtCall, setAtCall, afterReturn >>
    /\ UNCHANGED << elVars, eeVars >>

\* one turn of the for-of loop: wasFixed = callback( writer ); if ( wasFixed ) break;
\* the callback may itself call registerPostFixer( r ) (r = 0: it does not)
Invoke(r) ==
    /\ pc = "for"
    /\ it < Len(postFixers)
    /\ LET callback == postFixers[it + 1]
           res == Callback(callback, tree)
       IN  /\ tree' = res.tree
           /\ wasFixed' = res.changed
           /\ postFixers' = IF r = 0 THEN postFixers ELSE SetAdd(postFixers, r)
           /\ passLog' = Append(passLog, << callback, res.changed >>)
           /\ invoked' = invoked \cup { callback }
           /\ IF res.changed
                 THEN pc' = "while" /\ it' = it
                 ELSE pc' = "for" /\ it' = it + 1
    /\ UNCHANGED << op, passes, treeAtCall, setAtCall, afterReturn >>
    /\ UNCHANGED << elVars, eeVars >>

\* the Set iterator is exhausted: the for-of loop ends
ForDone ==
    /\ pc = "for"
    /\ it >= Len(postFixers)
    /\ pc' = "while"
    /\ UNCHANGED << postFixers, tree, wasFixed, it, op, passLog, passes, invoked,
                    treeAtCall, setAtCall, afterReturn >>
    /\ UNCHANGED << elVars, eeVars >>

\* a single pass: the do-while never repeats
WhileOnce ==
    /\ pc = "while"
    /\ pc' = "idle"
    /\ UNCHANGED << it, passLog, passes >>
    /\ UNCHANGED << postFixers, tree, wasFixed, op, invoked,
                    treeAtCall, setAtCall, afterReturn >>
    /\ UNCHANGED << elVars, eeVars >>

\* the loop condition negated: } while ( !wasFixed )
WhileInverted ==
    /\ pc = "while"
    /\ IF ~wasFixed
          THEN /\ pc' = "for"
               /\ it' = 0
               /\ passLog' = << >>
               /\ passes' = Min(passes + 1, MaxPasses)
          ELSE /\ pc' = "idle"
               /\ UNCHANGED << it, passLog, passes >>
    /\ UNCHANGED << postFixers, tree, wasFixed, op, invoked,
                    treeAtCall, setAtCall, afterReturn >>
    /\ UNCHANGED << elVars, eeVars >>

\* a loop with an iteration cap: it gives up after MaxPasses passes
WhileCapped ==
    /\ pc = "while"
    /\ IF wasFixed /\ passes < MaxPasses
          THEN /\ pc' = "for"
               /\ it' = 0
               /\ passLog' = << >>
               /\ passes' = Min(passes + 1, MaxPasses)
          ELSE /\ pc' = "idle"
               /\ UNCHANGED << it, passLog, passes >>
    /\ UNCHANGED << postFixers, tree, wasFixed, op, invoked,
                    treeAtCall, setAtCall, afterReturn >>
    /\ UNCHANGED << elVars, eeVars >>

\* the next pass goes on behind the callback that reported the change
WhileResume ==
    /\ pc = "while"
    /\ IF wasFixed
          THEN /\ pc' = "for"
               /\ it' = it + 1
               /\ passLog' = << >>
               /\ passes' = Min(passes + 1, MaxPasses)
          ELSE /\ pc' = "idle"
               /\ UNCHANGED << it, passLog, passes >>
    /\ UNCHANGED << postFixers, tree, wasFixed, op, invoked,
                    treeAtCall, setAtCall, afterReturn >>
    /\ UNCHANGED << elVars, eeVars >>

\* } while ( wasFixed ): another pass from the first callback, or return
While ==
    /\ pc = "while"
    /\ IF wasFixed
          THEN /\ pc' = "for"
               /\ it' = 0
               /\ passLog' = << >>
               /\ passes' = Min(passes + 1, MaxPasses)
          ELSE /\ pc' = "idle"
               /\ UNCHANGED << it, passLog, passes >>
    /\ UNCHANGED << postFixers, tree, wasFixed, op, invoked,
                    treeAtCall, setAtCall, afterReturn >>
    /\ UNCHANGED << elVars, eeVars >>

PostFixersNext ==
    \/ \E f \in Fixers : RegisterPostFixer(f)
    \/ \E t \in Trees : Change(t)
    \/ CallPostFixers
    \/ \E r \in 0 .. NumFixers : Invoke(r)
    \/ ForDone
    \/ While

\* the steps _callPostFixers takes once it has been entered
RunStep == (\E r \in 0 .. NumFixers : Invoke(r)) \/ ForDone \/ While

(***************************************************************************)
(* Properties of the post-fixer runner.                                    *)
(***************************************************************************)
\* the callbacks invoked in the current pass, in the order of their invocation
LogFixers == [ k \in 1 .. Len(passLog) |-> passLog[k][1] ]

\* some invocation of the current pass reported a change
ChangedInPass(f) == \E k \in 1 .. Len(passLog) : passLog[k] = << f, TRUE >>

\* _callPostFixers has returned and nothing was done to the document since
Returned == pc = "idle" /\ op = "_callPostFixers"

\* the callback reports a change whatever the tree is
AlwaysChanged(f) == \A t \in Trees : Callback(f, t).changed

\* C1: when _callPostFixers returns, its last pass invoked every post-fixer
\* registered at that moment (those registered during the run included) exactly
\* once, in one sequence, and every one of these invocations reported no change;
\* it does not return right after an invocation that reported a change.
C1_ReturnsAtFixedPoint ==
    Returned =>
        /\ LogFixers = postFixers
        /\ \A k \in 1 .. Len(passLog) : passLog[k][2] = FALSE
        /\ wasFixed = FALSE

\* a run that took several passes and in which a callback registered another
\* post-fixer has returned
C1_Witness ==
    /\ Returned
    /\ passes >= 2
    /\ Len(postFixers) >= 2
    /\ Len(postFixers) > Len(setAtCall)

\* C2: if from some point on no invocation reports a change, every run of
\* _callPostFixers returns (checked under SpecFair, where a run that was entered
\* goes on).
C2_Termination == (<>[](~wasFixed)) => []<>(pc = "idle")

\* a run over several post-fixers has returned after passes that changed the tree
C2_Witness ==
    /\ Returned
    /\ passes = MaxPasses
    /\ Len(postFixers) >= 2
    /\ tree # treeAtCall

\* C3 as stated: at the end of every pass every registered post-fixer has been
\* invoked in that pass, also when one registered before it reported a change.
C3_AllInvokedInEveryPass ==
    pc = "while" => \A f \in Range(postFixers) : f \in Range(LogFixers)

\* C3 as amended: a registered post-fixer is invoked in a pass exactly when no
\* post-fixer registered before it reported a change in that pass; the pass ends
\* with the first invocation that reports a change, and the post-fixers
\* registered behind it are not invoked in that pass.
C3_InvokedUnlessEarlierChanged ==
    pc = "while" =>
        \A k \in 1 .. Len(postFixers) :
            (postFixers[k] \in Range(LogFixers))
                <=> (\A j \in 1 .. (k - 1) : ~ChangedInPass(postFixers[j]))

\* a pass has ended with a change while registered post-fixers were not invoked
C3_Witness ==
    /\ pc = "while"
    /\ wasFixed
    /\ Len(passLog) >= 2
    /\ Len(passLog) < Len(postFixers)

\* C4: within a pass the k-th invocation is of the k-th registered post-fixer and
\* all invocations before the last reported no change; and the invocation that
\* follows one that reported a change is of the earliest-registered post-fixer.
C4_RegistrationOrder ==
    /\ [](\A k \in 1 .. Len(passLog) :
              /\ k <= Len(postFixers)
              /\ passLog[k][1] = postFixers[k]
              /\ (k < Len(passLog) => passLog[k][2] = FALSE))
    /\ [][ (wasFixed /\ passLog' # passLog /\ passLog' # << >>)
              => (Len(passLog') = 1 /\ passLog'[1][1] = postFixers[1]) ]_vars

\* the first post-fixer is invoked again after a later one reported a change
C4_Witness ==
    /\ pc = "for"
    /\ passes >= 2
    /\ wasFixed
    /\ Len(passLog) = 0
    /\ it = 0
    /\ Len(postFixers) >= 2
    /\ ~AlwaysChanged(postFixers[1])

\* C5: while a registered post-fixer reports a change on every invocation, a run
\* of _callPostFixers does not return, whatever the number of passes made, and
\* always has a next step to take.
C5_NoIterationCap ==
    (\E f \in Range(postFixers) : AlwaysChanged(f)) =>
        /\ ~Returned
        /\ (pc \in { "for", "while" } => ENABLED RunStep)

\* a run with such a post-fixer is in a pass after MaxPasses - 1 earlier ones
C5_Witness ==
    /\ pc = "for"
    /\ passes = MaxPasses
    /\ Len(passLog) >= 1
    /\ \E f \in Range(postFixers) : AlwaysChanged(f)

\* C6: a run entered right after a run returned, with the same set of
\* post-fixers at its end as at its start, makes one pass that invokes every
\* registered post-fixer once, none reporting a change, and leaves the tree as
\* it found it.
C6_SecondRunIsNoOp ==
    (Returned /\ afterReturn /\ postFixers = setAtCall) =>
        /\ passes = 1
        /\ LogFixers = postFixers
        /\ \A k \in 1 .. Len(passLog) : passLog[k][2] = FALSE
        /\ tree = treeAtCall

\* a second run over several post-fixers, one of which repairs, has returned
C6_Witness ==
    /\ Returned
    /\ afterReturn
    /\ postFixers = setAtCall
    /\ Len(postFixers) >= 2
    /\ \E f \in Range(postFixers) : Kind(f) = "repair"

\* C7: registerPostFixer only adds the callback to the set of post-fixers: it
\* invokes no callback and leaves the tree, the runner and the listeners alone;
\* callbacks are invoked inside runs of _callPostFixers alone.
C7_RegisterDoesNotExecute ==
    /\ [][ op' = "registerPostFixer" =>
              /\ \/ postFixers' = postFixers
                 \/ \E f \in Fixers : f \notin Range(postFixers)
                                       /\ postFixers' = Append(postFixers, f)
              /\ UNCHANGED << tree, pc, wasFixed, it, passLog, passes, invoked,
                              elVars >> ]_vars
    /\ [][ invoked' # invoked => (pc = "for" /\ op = "_callPostFixers") ]_vars

\* a post-fixer has been registered after a run and has not been invoked yet
C7_Witness ==
    /\ op = "registerPostFixer"
    /\ invoked # {}
    /\ \E f \in Range(postFixers) : f \notin invoked

(***************************************************************************)
(* Event listeners of the document.                                        *)
(***************************************************************************)
NoCall == [ op |-> "none", event |-> "none", callback |-> "none",
            context |-> "undefined", roundTrip |-> FALSE ]

ListenersInit ==
    /\ docListeners = {}
    /\ obsListeners = [ o \in ObserverNames |-> {} ]
    /\ lastCall = NoCall

\* JavaScript truthiness of options.context
Truthy(context) == context # "undefined"

\* the test without its instanceof: any observer with that firedEventType
MatchesAnyObserver(o, event) == observers[o].firedEventType = event

\* observer instanceof BubblingObserver && observer.firedEventType == event
Matches(o, event) ==
    /\ observers[o].bubbling
    /\ observers[o].firedEventType = event

\* this.listenTo( observer, event, callback, options ): attaches to the observer
ListenTo(lst, o, event, callback) ==
    [ lst EXCEPT ![o] = @ \cup { << event, callback >> } ]

\* this.stopListening( observer, event, callback ): detaches from the observer
StopListening(lst, o, event, callback) ==
    [ lst EXCEPT ![o] = @ \ { << event, callback >> } ]

\* ObservableMixin._addEventListener.call( this, ... ): attaches to the document
MixinAdd(lst, event, callback) == lst \cup { << event, callback >> }

\* ObservableMixin._removeEventListener.call( this, ... ): detaches from the document
MixinRemove(lst, event, callback) == lst \ { << event, callback >> }

\* _addEventListener's for-of loop over this._observers.values(), from observer o on
RECURSIVE ListenToObservers(_, _, _, _)
ListenToObservers(lst, o, event, callback) ==
    IF o > NumObservers
       THEN lst
       ELSE ListenToObservers(IF Matches(o, event)
                                 THEN ListenTo(lst, o, event, callback)
                                 ELSE lst,
                              o + 1, event, callback)

\* _removeEventListener's for-of loop over this._observers.values(), from observer o on
RECURSIVE StopListeningObservers(_, _, _, _)
StopListeningObservers(lst, o, event, callback) ==
    IF o > NumObservers
       THEN lst
       ELSE StopListeningObservers(IF Matches(o, event)
                                      THEN StopListening(lst, o, event, callback)
                                      ELSE lst,
                                   o + 1, event, callback)

\* _addEventListener( event, callback, options = {} )
AddEventListener(event, callback, context) ==
    /\ IF Truthy(context)
          THEN /\ obsListeners' = ListenToObservers(obsListeners, 1, event, callback)
               /\ docListeners' = docListeners
          ELSE /\ docListeners' = MixinAdd(docListeners, event, callback)
               /\ obsListeners' = obsListeners
    /\ lastCall' = [ op |-> "add", event |-> event, callback |-> callback,
                     context |-> context, roundTrip |-> FALSE ]
    /\ UNCHANGED observers
    /\ UNCHANGED << pfVars, eeVars >>

\* a _removeEventListener that leaves the observers alone
RemoveFromDocumentOnly(event, callback) ==
    /\ obsListeners' = obsListeners
    /\ docListeners' = MixinRemove(docListeners, event, callback)
    /\ lastCall' = [ op |-> "remove", event |-> event, callback |-> callback,
                     context |-> IF lastCall.op = "add" THEN lastCall.context ELSE "undefined",
                     roundTrip |-> /\ lastCall.op = "add"
                                   /\ lastCall.event = event
                                   /\ lastCall.callback = callback ]
    /\ UNCHANGED observers
    /\ UNCHANGED << pfVars, eeVars >>

\* _removeEventListener( event, callback )
RemoveEventListener(event, callback) ==
    /\ obsListeners' = StopListeningObservers(obsListeners, 1, event, callback)
    /\ docListeners' = MixinRemove(docListeners, event, callback)
    /\ lastCall' = [ op |-> "remove", event |-> event, callback |-> callback,
                     context |-> IF lastCall.op = "add" THEN lastCall.context ELSE "undefined",
                     roundTrip |-> /\ lastCall.op = "add"
                                   /\ lastCall.event = event
                                   /\ lastCall.callback = callback ]
    /\ UNCHANGED observers
    /\ UNCHANGED << pfVars, eeVars >>

ListenersNext ==
    \/ \E e \in Events, cb \in Callbacks, c \in Contexts : AddEventListener(e, cb, c)
    \/ \E e \in Events, cb \in Callbacks : RemoveEventListener(e, cb)

(***************************************************************************)
(* Properties of the listener routing.                                     *)
(***************************************************************************)
\* the <<event, callback>> pair of the last listener call
LastPair == << lastCall.event, lastCall.callback >>

\* the observer is a BubblingObserver that fires the event
BubblingFor(o, event) == observers[o].bubbling /\ observers[o].firedEventType = event

\* C9: _addEventListener with options.context set attaches the callback to exactly
\* the BubblingObservers of the observers map whose firedEventType is the event
\* and does not touch the listeners of the document itself; without a context it
\* attaches the callback to the document itself and touches no observer.
C9_ListenerRouting ==
    [][ lastCall'.op = "add" =>
          LET pair == << lastCall'.event, lastCall'.callback >>
          IN  IF lastCall'.context # "undefined"
                 THEN /\ docListeners' = docListeners
                      /\ \A o \in ObserverNames :
                            obsListeners'[o] =
                                IF BubblingFor(o, lastCall'.event)
                                   THEN obsListeners[o] \cup { pair }
                                   ELSE obsListeners[o]
                 ELSE /\ docListeners' = docListeners \cup { pair }
                      /\ obsListeners' = obsListeners ]_vars

\* a call with a context attached the callback to a bubbling observer of the
\* event, beside an observer that has that firedEventType but is no
\* BubblingObserver, and not to the document
C9_Witness ==
    /\ lastCall.op = "add"
    /\ lastCall.context # "undefined"
    /\ LastPair \notin docListeners
    /\ \E o \in ObserverNames : BubblingFor(o, lastCall.event) /\ LastPair \in obsListeners[o]
    /\ \E o \in ObserverNames :
          /\ ~observers[o].bubbling
          /\ observers[o].firedEventType = lastCall.event
          /\ LastPair \notin obsListeners[o]

\* C10: after _addEventListener( event, callback, options ) followed by
\* _removeEventListener( event, callback ) the callback is attached for that event
\* neither to the document nor to any observer, with or without options.context;
\* _removeEventListener removes that pair from the document and from every
\* BubblingObserver of the event and leaves all other listeners attached.
C10_AddRemoveRoundTrip ==
    /\ []((lastCall.op = "remove" /\ lastCall.roundTrip) =>
              /\ LastPair \notin docListeners
              /\ \A o \in ObserverNames : LastPair \notin obsListeners[o])
    /\ [][ lastCall'.op = "remove" =>
              LET pair == << lastCall'.event, lastCall'.callback >>
              IN  /\ docListeners' = docListeners \ { pair }
                  /\ \A o \in ObserverNames :
                        obsListeners'[o] =
                            IF BubblingFor(o, lastCall'.event)
                               THEN obsListeners[o] \ { pair }
                               ELSE obsListeners[o] ]_vars

\* a callback added with a context was removed again, from a document that
\* keeps other listeners on itself and on that observer
C10_Witness ==
    /\ lastCall.op = "remove"
    /\ lastCall.roundTrip
    /\ lastCall.context # "undefined"
    /\ docListeners # {}
    /\ \E o \in ObserverNames : BubblingFor(o, lastCall.event) /\ obsListeners[o] # {}

(***************************************************************************)
(* EmptyElement.                                                           *)
(***************************************************************************)
ElementInit ==
    /\ constructed = FALSE
    /\ children = << >>
    /\ thrown = "none"
    /\ returned = "none"
    /\ eeCall = [ op |-> "none", index |-> 0, items |-> [ kind |-> "undefined", elems |-> << >> ] ]

\* items instanceof Node
InstanceOfNode(items) == items.kind \in { "element", "text" }

\* Array.from( items ): the entries of an iterable, [] for an object that is none
ArrayFrom(items) == IF items.kind = "iterable" THEN items.elems ELSE << >>

\* the condition without its instanceof Node: only iterables are looked at
CannotAddIterableOnly(items) ==
    /\ items.kind # "undefined"
    /\ Len(ArrayFrom(items)) > 0

\* the condition of the if in _insertChild
CannotAdd(items) ==
    /\ items.kind # "undefined"
    /\ (InstanceOfNode(items) \/ Len(ArrayFrom(items)) > 0)

\* _insertChild( index, items ): what it throws, returns and leaves as children
InsertChildResult(kids, index, items) ==
    IF CannotAdd(items)
       THEN [ thrown |-> "view-emptyelement-cannot-add", returned |-> "none", children |-> kids ]
       ELSE [ thrown |-> "none", returned |-> 0, children |-> kids ]

\* new EmptyElement( document, name, attributes, children ): the Element constructor
\* starts with no children and hands the children argument to this._insertChild( 0, ... )
Construct(items) ==
    /\ ~constructed
    /\ LET res == InsertChildResult(<< >>, 0, items)
       IN  /\ thrown' = res.thrown
           /\ returned' = "none"
           /\ children' = res.children
           /\ constructed' = (res.thrown = "none")
    /\ eeCall' = [ op |-> "constructor", index |-> 0, items |-> items ]
    /\ UNCHANGED << pfVars, elVars >>

\* a call of emptyElement._insertChild( index, items )
InsertChild(index, items) ==
    /\ constructed
    /\ LET res == InsertChildResult(children, index, items)
       IN  /\ thrown' = res.thrown
           /\ returned' = res.returned
           /\ children' = res.children
    /\ eeCall' = [ op |-> "_insertChild", index |-> index, items |-> items ]
    /\ UNCHANGED constructed
    /\ UNCHANGED << pfVars, elVars >>

ElementNext ==
    \/ \E items \in ItemsValues : Construct(items)
    \/ \E index \in 0 .. MaxIndex, items \in ItemsValues : InsertChild(index, items)

(***************************************************************************)
(* Properties of EmptyElement.                                             *)
(***************************************************************************)
\* C8: a call of _insertChild (the constructor's included) with a single Node or
\* a non-empty iterable throws view-emptyelement-cannot-add, whatever the index;
\* with no items or an empty iterable it throws nothing and _insertChild returns
\* 0; and the element never has a child.
C8_EmptyElementHasNoChildren ==
    /\ Len(children) = 0
    /\ eeCall.op # "none" =>
          LET items == eeCall.items
          IN  /\ (\/ items.kind \in { "element", "text" }
                  \/ (items.kind = "iterable" /\ Len(items.elems) >= 1))
                    => (thrown = "view-emptyelement-cannot-add" /\ returned = "none")
              /\ (\/ items.kind = "undefined"
                  \/ (items.kind = "iterable" /\ Len(items.elems) = 0))
                    => /\ thrown = "none"
                       /\ (eeCall.op = "_insertChild" => returned = 0)

\* _insertChild at an index behind 0 threw for a single Node
C8_Witness ==
    /\ constructed
    /\ eeCall.op = "_insertChild"
    /\ eeCall.index > 0
    /\ eeCall.items.kind = "element"
    /\ thrown = "view-emptyelement-cannot-add"

(***************************************************************************)
(* Specifications.                                                         *)
(***************************************************************************)
PlainObserver == [ bubbling |-> FALSE, firedEventType |-> "undefined" ]

\* the post-fixers of a document
Init ==
    /\ PostFixersInit
    /\ observers = [ o \in ObserverNames |-> PlainObserver ]
    /\ ListenersInit
    /\ ElementInit

Next == PostFixersNext

Spec == Init /\ [][Next]_vars

\* the same, with _callPostFixers running on once it is entered (it is synchronous)
SpecFair == Spec /\ WF_vars(RunStep)

\* the event listeners of a document constructed with any observers map
InitListeners ==
    /\ PostFixersInit
    /\ tree = 0
    /\ observers \in [ ObserverNames -> ObserverKinds ]
    /\ ListenersInit
    /\ ElementInit

NextListeners == ListenersNext

SpecListeners == InitListeners /\ [][NextListeners]_vars

\* an EmptyElement
InitElement ==
    /\ PostFixersInit
    /\ tree = 0
    /\ observers = [ o \in ObserverNames |-> PlainObserver ]
    /\ ListenersInit
    /\ ElementInit

NextElement == ElementNext

SpecElement == InitElement /\ [][NextElement]_vars

====
